---------------------------- MODULE Spec2Model ----------------------------
(***************************************************************************)
(* Expense tracker (src/main.py): the lazily initialised shared aiosqlite  *)
(* connection (get_db) and the five tool handlers, as coroutines that      *)
(* interleave at their await points.                                       *)
(*                                                                         *)
(* Text is a sequence of character codes (48..57 are the digits, 97.. the  *)
(* letters), so that SQLite's string comparison, its column affinity and   *)
(* Python's truthiness are computed and not assumed.                       *)
(***************************************************************************)
EXTENDS Integers, Sequences, FiniteSets

(***************************************************************************)
(* Bounds of the model.                                                    *)
(***************************************************************************)
NTasks == 2        \* coroutines that may run handlers concurrently
MaxCalls == 3      \* handler calls of the sequential client
MaxConcCalls == 3  \* handler calls in the concurrent specification
MaxN == 2          \* records inserted by the round-trip client

DEFAULT_LIMIT == 100

None == 0
Tasks == 1..NTasks

(***************************************************************************)
(* Text and SQLite values.                                                 *)
(***************************************************************************)
Digits == 48..57

T_empty == <<>>
T_1 == <<49>>
T_2 == <<50>>
T_3 == <<51>>
T_10 == <<49, 48>>
T_a == <<97>>
T_b == <<98>>

\* memcmp order of two TEXT values (SQLite's BINARY collation).
TextLE(a, b) ==
    \/ \E k \in 1..Len(a) :
          /\ k <= Len(b)
          /\ \A j \in 1..(k - 1) : a[j] = b[j]
          /\ a[k] < b[k]
    \/ /\ Len(a) <= Len(b)
       /\ \A j \in 1..Len(a) : a[j] = b[j]

\* A text that SQLite's numeric affinity converts to a number.
IsNumeric(s) == Len(s) > 0 /\ \A j \in 1..Len(s) : s[j] \in Digits

RECURSIVE TextToNum(_)
TextToNum(s) ==
    IF Len(s) = 0 THEN 0
    ELSE 10 * TextToNum(SubSeq(s, 1, Len(s) - 1)) + (s[Len(s)] - 48)

\* Python's str() of a non-negative int: what a caller passes for an id.
RECURSIVE Str(_)
Str(n) == IF n < 10 THEN <<48 + n>> ELSE Str(n \div 10) \o <<48 + (n % 10)>>

\* A stored value of the amount column: a number, or a text that REAL
\* affinity could not convert.
NumV(n) == [num |-> TRUE, n |-> n, s |-> <<>>]
TextV(s) == [num |-> FALSE, n |-> 0, s |-> s]

\* REAL column affinity applied to a bound TEXT parameter on storage.
RealAffinity(s) == IF IsNumeric(s) THEN NumV(TextToNum(s)) ELSE TextV(s)


(***************************************************************************)
(* The expenses table (CREATE_TABLE_SQL) and the statements of the         *)
(* handlers.  A database is [exists, rows, seq]: whether the table exists, *)
(* its rows, and the AUTOINCREMENT counter kept in sqlite_sequence.        *)
(***************************************************************************)
Row(i, d, a, c, s, n) ==
    [id |-> i, date |-> d, amount |-> a, category |-> c,
     subcategory |-> s, note |-> n]

EmptyDb == [exists |-> FALSE, rows |-> {}, seq |-> 0]

RowIds(rows) == {r.id : r \in rows}

\* Without AUTOINCREMENT: one more than the largest id now in the table.
NextIdOfRows(db) ==
    IF db.rows = {} THEN 1
    ELSE 1 + (CHOOSE i \in RowIds(db.rows) : \A j \in RowIds(db.rows) : j <= i)

\* INSERT INTO expenses(date, amount, category, subcategory, note): the id
\* is one more than the largest id the table ever held (AUTOINCREMENT).
NextId(db) == db.seq + 1

InsertRow(db, d, a, c, s, n) ==
    [db EXCEPT !.rows = @ \cup {Row(NextId(db), d, NumV(a), c, s, n)},
               !.seq = NextId(db)]

\* The comparison without the affinity of the id and amount columns: a
\* text never equals a number.
ColEqNoAffinity(field, r, value) ==
    CASE field = "amount" -> ~r.amount.num /\ value = r.amount.s
      [] field = "date" -> r.date = value
      [] field = "category" -> r.category = value
      [] OTHER -> FALSE

\* "<field> = ?" with a TEXT parameter, under the column's affinity.
ColEq(field, r, value) ==
    CASE field = "id" -> IsNumeric(value) /\ TextToNum(value) = r.id
      [] field = "amount" ->
            IF r.amount.num
            THEN IsNumeric(value) /\ TextToNum(value) = r.amount.n
            ELSE ~IsNumeric(value) /\ value = r.amount.s
      [] field = "date" -> r.date = value
      [] field = "category" -> r.category = value
      [] OTHER -> FALSE

\* DELETE FROM expenses WHERE <field> = ?
DeleteMatching(field, rows, value) == {r \in rows : ColEq(field, r, value)}

DeleteRows(db, field, value) ==
    [db EXCEPT !.rows = @ \ DeleteMatching(field, db.rows, value)]

\* SET <field> = ? with a TEXT parameter, stored under the column's affinity.
SetField(r, field, value) ==
    CASE field = "date" -> [r EXCEPT !.date = value]
      [] field = "category" -> [r EXCEPT !.category = value]
      [] field = "amount" -> [r EXCEPT !.amount = RealAffinity(value)]
      [] field = "subcategory" -> [r EXCEPT !.subcategory = value]
      [] field = "note" -> [r EXCEPT !.note = value]
      [] field = "id" /\ IsNumeric(value) -> [r EXCEPT !.id = TextToNum(value)]
      [] OTHER -> r

\* The UPDATE without its WHERE clause.
UpdateMatchingAll(rows, id) == rows

\* UPDATE expenses SET <field> = ? WHERE id = ?
UpdateMatching(rows, id) == {r \in rows : r.id = id}

UpdateRows(db, id, field, value) ==
    [db EXCEPT !.rows = (@ \ UpdateMatching(db.rows, id))
                  \cup {SetField(r, field, value) : r \in UpdateMatching(db.rows, id)}]

\* WHERE date BETWEEN ? AND ?
InRange(r, start_date, end_date) ==
    TextLE(start_date, r.date) /\ TextLE(r.date, end_date)

\* ORDER BY date DESC, id DESC: r comes before q.
Before(r, q) ==
    \/ (r.date # q.date /\ TextLE(q.date, r.date))
    \/ (r.date = q.date /\ r.id > q.id)

RECURSIVE Ordered(_)
Ordered(rows) ==
    IF rows = {} THEN <<>>
    ELSE LET first == CHOOSE r \in rows : \A q \in rows \ {r} : Before(r, q)
         IN  <<first>> \o Ordered(rows \ {first})

\* LIMIT ?: a negative limit is no limit (SQLite).
Limit(seq, limit) ==
    IF limit < 0 \/ limit >= Len(seq) THEN seq ELSE SubSeq(seq, 1, limit)

SelectRows(db, start_date, end_date, limit) ==
    Limit(Ordered({r \in db.rows : InRange(r, start_date, end_date)}), limit)

\* "if category:" in summarize: None and the empty string add no filter.
Truthy(catNone, category) == ~catNone /\ Len(category) > 0

Filtered(db, start_date, end_date, catNone, category) ==
    {r \in db.rows :
        /\ InRange(r, start_date, end_date)
        /\ (Truthy(catNone, category) => r.category = category)}

RECURSIVE SumAmount(_)
SumAmount(rows) ==
    IF rows = {} THEN 0
    ELSE LET r == CHOOSE q \in rows : TRUE
         IN  (IF r.amount.num THEN r.amount.n ELSE 0) + SumAmount(rows \ {r})

\* GROUP BY category: one group per category of the filtered rows.
Groups(db, start_date, end_date, catNone, category) ==
    LET rows == Filtered(db, start_date, end_date, catNone, category)
    IN  {[category |-> c,
          total_amount |-> SumAmount({r \in rows : r.category = c}),
          count |-> Cardinality({r \in rows : r.category = c})] :
            c \in {r.category : r \in rows}}

\* ORDER BY total_amount DESC: every order of the groups that is sorted
\* (SQLite leaves the order of equal totals open).
Orderings(groups) ==
    {f \in [1..Cardinality(groups) -> groups] :
        /\ \A i, j \in DOMAIN f : i # j => f[i] # f[j]
        /\ \A i, j \in DOMAIN f : i < j => f[i].total_amount >= f[j].total_amount}

(***************************************************************************)
(* Requests (a handler and its arguments), cursors and returned values.    *)
(* Every record has the same fields whatever the handler.                  *)
(***************************************************************************)
NoReq ==
    [op |-> "none", date |-> <<>>, amount |-> 0, category |-> <<>>,
     subcategory |-> <<>>, note |-> <<>>, start_date |-> <<>>,
     end_date |-> <<>>, limit |-> 0, catNone |-> TRUE, field |-> "",
     value |-> <<>>, id |-> 0]

AddReq(d, a, c, s, n) ==
    [NoReq EXCEPT !.op = "add_expense", !.date = d, !.amount = a,
                  !.category = c, !.subcategory = s, !.note = n]

ListReq(s, e, l) ==
    [NoReq EXCEPT !.op = "list_expenses", !.start_date = s, !.end_date = e,
                  !.limit = l]

SummarizeReq(s, e, none, c) ==
    [NoReq EXCEPT !.op = "summarize", !.start_date = s, !.end_date = e,
                  !.catNone = none, !.category = c]

RemovalReq(f, v) == [NoReq EXCEPT !.op = "removal", !.field = f, !.value = v]

UpdateReq(i, f, v) ==
    [NoReq EXCEPT !.op = "update_expense", !.id = i, !.field = f, !.value = v]

Mutating == {"add_expense", "removal", "update_expense"}

NoCur == [lastrowid |-> 0, rowcount |-> 0, rows |-> <<>>, groups |-> <<>>,
          prior |-> {}]

NoHeld == [id |-> 0, req |-> NoReq, prior |-> {}]

\* What a handler returned: status is "success" or "error" for an envelope
\* and "list" for the bare list that list_expenses and summarize return.
\* Kept with it, and not part of the returned value: the request, the
\* exception behind an error (cause), the row id an INSERT assigned before
\* the error (id), the store operations the call issued (nio), the ids in
\* use before the INSERT (prior) and the add_expense a list follows (after).
NoLast ==
    [task |-> 0, req |-> NoReq, status |-> "none", id |-> 0, count |-> 0,
     rows |-> <<>>, groups |-> <<>>, message |-> <<>>, cause |-> <<>>,
     nio |-> 0, prior |-> {}, after |-> NoHeld]

(***************************************************************************)
(* Messages, as sequences of words.                                        *)
(***************************************************************************)
E_readonly == <<"attempt", "to", "write", "a", "readonly", "database">>
E_no_table == <<"no", "such", "table:", "expenses">>
E_locked == <<"database", "is", "locked">>
E_io == <<"disk", "i/o", "error">>
E_open == <<"unable", "to", "open", "database", "file">>

ReadOnlyMessage ==
    <<"Database", "is", "read-only", "in", "this", "environment.">>

\* "readonly" in msg.lower()
HasReadonly(msg) == \E i \in 1..Len(msg) : msg[i] = "readonly"

\* The message of the except branch of each handler.
AddErrorMessage(msg) ==
    IF HasReadonly(msg) THEN ReadOnlyMessage
    ELSE <<"Database", "error:">> \o msg

ListErrorMessage(msg) == <<"Error", "listing", "expenses:">> \o msg

SummarizeErrorMessage(msg) == <<"Error", "summarizing", "expenses:">> \o msg

RemovalErrorMessage(msg) == <<"Error", "deleting", "expenses:">> \o msg

UpdateErrorMessage(msg) == <<"Error", "updating", "expense:">> \o msg

ErrorMessage(op, msg) ==
    CASE op = "add_expense" -> AddErrorMessage(msg)
      [] op = "list_expenses" -> ListErrorMessage(msg)
      [] op = "summarize" -> SummarizeErrorMessage(msg)
      [] op = "removal" -> RemovalErrorMessage(msg)
      [] OTHER -> UpdateErrorMessage(msg)

\* f"Invalid field. Allowed: {sorted(allowed)}"
RemovalInvalidMessage ==
    <<"Invalid", "field.", "Allowed:", "amount", "category", "date", "id">>

UpdateInvalidMessage ==
    <<"Invalid", "field.", "Allowed:", "amount", "category", "date", "note",
      "subcategory">>

\* An allow-list of update_expense that lets the primary key through.
UpdateAllowedWithId ==
    {"id", "date", "category", "amount", "subcategory", "note"}

RemovalAllowed == {"id", "category", "date", "amount"}

UpdateAllowed == {"date", "category", "amount", "subcategory", "note"}

(***************************************************************************)
(* State.                                                                  *)
(***************************************************************************)
VARIABLES
    IS_CLOUD,    \* FASTMCP_ENV is "cloud": the database is ":memory:"
    readOnly,    \* the database file cannot be written (set by the host)
    committed,   \* the database as committed
    view,        \* the database as the shared connection sees it
    _db_conn,    \* None, or the connection (its number)
    _db_lock,    \* None, or the task holding the asyncio.Lock
    waiters,     \* tasks waiting for _db_lock, first come first served
    opened,      \* connections opened so far
    initDone,    \* completed runs of get_db's initialization
    pc,          \* per task: the await it is suspended at, or "idle"
    req,         \* per task: the handler running and its arguments
    db,          \* per task: the connection get_db returned to it
    cur,         \* per task: the cursor of its statement
    nio,         \* per task: store operations issued by the running call
    calls,       \* handler calls made so far
    last,        \* what the latest handler to return returned
    held,        \* the successful add_expense the client follows with a list
    everIds,     \* every id a row was ever given
    client       \* the calling program

envVars == <<IS_CLOUD, readOnly>>
dbVars == <<committed, view, everIds>>
connVars == <<_db_conn, _db_lock, waiters, opened, initDone>>
taskVars == <<pc, req, db, cur, nio>>
callVars == <<calls, last, held, client>>
vars == <<envVars, dbVars, connVars, taskVars, callVars>>

(***************************************************************************)
(* The calling program: any caller, or the round trip of inserting up to   *)
(* MaxN records, removing each by its returned id and listing.             *)
(***************************************************************************)
FreeClient == [phase |-> "free", ids |-> {}, adds |-> 0, results |-> {}]

RoundTripClient == [FreeClient EXCEPT !.phase = "insert"]

ClientOnCall(c, r) ==
    CASE c.phase = "free" -> c
      [] r.op = "add_expense" -> [c EXCEPT !.adds = @ + 1]
      [] r.op = "removal" ->
            [c EXCEPT !.phase = "delete", !.ids = @ \ {TextToNum(r.value)}]
      [] OTHER -> [c EXCEPT !.phase = "check"]

ClientOnReturn(c, res) ==
    CASE c.phase = "free" -> c
      [] res.req.op = "add_expense" /\ res.status = "success" ->
            [c EXCEPT !.ids = @ \cup {res.id}]
      [] res.req.op = "removal" ->
            [c EXCEPT !.results =
                @ \cup {[status |-> res.status, deleted |-> res.count]}]
      [] res.req.op = "list_expenses" -> [c EXCEPT !.phase = "done"]
      [] OTHER -> c

(***************************************************************************)
(* Returning from a handler.                                               *)
(***************************************************************************)
Result(t, status) ==
    [NoLast EXCEPT !.task = t, !.req = req[t], !.status = status,
                   !.nio = nio[t] + 1]

\* except Exception as e: the error envelope of the running handler.
Error(t, msg) ==
    [Result(t, "error") EXCEPT !.message = ErrorMessage(req[t].op, msg),
                               !.cause = msg, !.id = cur[t].lastrowid]

Return(t, res) ==
    /\ pc' = [pc EXCEPT ![t] = "idle"]
    /\ req' = [req EXCEPT ![t] = NoReq]
    /\ db' = [db EXCEPT ![t] = None]
    /\ cur' = [cur EXCEPT ![t] = NoCur]
    /\ nio' = [nio EXCEPT ![t] = 0]
    /\ last' = res
    /\ held' = IF res.req.op = "add_expense" /\ res.status = "success"
               THEN [id |-> res.id, req |-> res.req, prior |-> res.prior]
               ELSE NoHeld
    /\ client' = ClientOnReturn(client, res)
    /\ UNCHANGED calls

\* The task moves on to its next await.
Goto(t, label) ==
    /\ pc' = [pc EXCEPT ![t] = label]
    /\ nio' = [nio EXCEPT ![t] = @ + 1]
    /\ UNCHANGED <<req, callVars>>

(***************************************************************************)
(* get_db: the shared connection, opened and initialised on first use.     *)
(***************************************************************************)
\* get_db returns the shared connection to the handler, which submits its
\* statement.
GotDb(t) ==
    /\ pc' = [pc EXCEPT ![t] = "execute"]
    /\ db' = [db EXCEPT ![t] = _db_conn]

\* get_db without the second check.
NotCheckedUnderLock == FALSE

\* "if _db_conn is not None: return _db_conn" under the lock.
InitializedUnderLock == _db_conn # None

\* From the call to the first await: the check outside the lock, then the
\* lock, taken at once when it is free and nobody waits.
get_db(t) ==
    IF _db_conn # None
    THEN GotDb(t) /\ UNCHANGED <<_db_lock, waiters>>
    ELSE IF _db_lock = None /\ waiters = <<>>
    THEN /\ _db_lock' = t
         /\ pc' = [pc EXCEPT ![t] = "connect"]
         /\ UNCHANGED <<db, waiters>>
    ELSE /\ waiters' = Append(waiters, t)
         /\ pc' = [pc EXCEPT ![t] = "lock"]
         /\ UNCHANGED <<db, _db_lock>>

\* The lock is granted to the first waiter, which checks again.
get_db_locked(t) ==
    /\ pc[t] = "lock"
    /\ _db_lock = None
    /\ waiters # <<>>
    /\ Head(waiters) = t
    /\ waiters' = Tail(waiters)
    /\ IF InitializedUnderLock
       THEN GotDb(t) /\ UNCHANGED _db_lock
       ELSE /\ _db_lock' = t
            /\ pc' = [pc EXCEPT ![t] = "connect"]
            /\ UNCHANGED db
    /\ UNCHANGED <<envVars, dbVars, _db_conn, opened, initDone, req, cur, nio,
                   callVars>>

\* _db_conn = await aiosqlite.connect(DB_PATH)
get_db_connect(t) ==
    /\ pc[t] = "connect"
    /\ opened' = opened + 1
    /\ _db_conn' = opened + 1
    /\ view' = committed
    /\ Goto(t, "pragma_fk")
    /\ UNCHANGED <<envVars, committed, everIds, _db_lock, waiters, initDone,
                   db, cur>>

\* An exception inside "async with _db_lock" releases the lock and reaches
\* the handler's except branch.
Raise(t, msg) ==
    /\ _db_lock' = None
    /\ Return(t, Error(t, msg))

\* aiosqlite.connect raises: _db_conn stays None.
get_db_connect_fail(t) ==
    /\ pc[t] = "connect"
    /\ Raise(t, E_open)
    /\ UNCHANGED <<envVars, dbVars, _db_conn, waiters, opened, initDone>>

\* await _db_conn.execute("PRAGMA foreign_keys = ON;")
get_db_pragma_fk(t) ==
    /\ pc[t] = "pragma_fk"
    /\ Goto(t, IF ~IS_CLOUD THEN "pragma_wal" ELSE "create")
    /\ UNCHANGED <<envVars, dbVars, connVars, db, cur>>

\* await _db_conn.execute("PRAGMA journal_mode=WAL;"), whose failure is
\* caught and ignored.
get_db_pragma_wal(t) ==
    /\ pc[t] = "pragma_wal"
    /\ Goto(t, "create")
    /\ UNCHANGED <<envVars, dbVars, connVars, db, cur>>

\* await _db_conn.execute(CREATE_TABLE_SQL): nothing when the table exists,
\* an error on a database that cannot be written, the table otherwise.
get_db_create(t) ==
    /\ pc[t] = "create"
    /\ IF view.exists
       THEN Goto(t, "init_commit") /\ UNCHANGED <<dbVars, connVars, db, cur>>
       ELSE IF readOnly
       THEN /\ Raise(t, E_readonly)
            /\ UNCHANGED <<dbVars, _db_conn, waiters, opened, initDone>>
       ELSE /\ view' = [view EXCEPT !.exists = TRUE]
            /\ committed' = [committed EXCEPT !.exists = TRUE]
            /\ Goto(t, "init_commit")
            /\ UNCHANGED <<everIds, connVars, db, cur>>
    /\ UNCHANGED envVars

\* await _db_conn.commit(), the end of "async with", return _db_conn
get_db_commit(t) ==
    /\ pc[t] = "init_commit"
    /\ committed' = view
    /\ initDone' = initDone + 1
    /\ _db_lock' = None
    /\ GotDb(t)
    /\ nio' = [nio EXCEPT ![t] = @ + 1]
    /\ UNCHANGED <<envVars, view, everIds, _db_conn, waiters, opened, req, cur,
                   callVars>>

(***************************************************************************)
(* The handlers.  A call runs to its first await inside get_db or, with    *)
(* the connection there, to the await of its statement.                    *)
(***************************************************************************)
Begin(t, r, cap) ==
    /\ pc[t] = "idle"
    /\ calls < cap
    /\ calls' = calls + 1
    /\ req' = [req EXCEPT ![t] = r]
    /\ last' = NoLast
    /\ held' = IF r.op = "list_expenses" THEN held ELSE NoHeld
    /\ client' = ClientOnCall(client, r)
    /\ get_db(t)
    /\ UNCHANGED <<envVars, dbVars, _db_conn, opened, initDone, cur, nio>>

\* "if field not in allowed: return {"status": "error", ...}", before get_db.
Reject(t, r, cap) ==
    /\ pc[t] = "idle"
    /\ calls < cap
    /\ calls' = calls + 1
    /\ last' = [NoLast EXCEPT !.task = t, !.req = r, !.status = "error",
                              !.message = IF r.op = "removal"
                                          THEN RemovalInvalidMessage
                                          ELSE UpdateInvalidMessage]
    /\ held' = NoHeld
    /\ UNCHANGED <<envVars, dbVars, connVars, taskVars, client>>

add_expense(t, r, cap) == r.op = "add_expense" /\ Begin(t, r, cap)

list_expenses(t, r, cap) == r.op = "list_expenses" /\ Begin(t, r, cap)

summarize(t, r, cap) == r.op = "summarize" /\ Begin(t, r, cap)

removal(t, r, cap) ==
    /\ r.op = "removal"
    /\ IF r.field \notin RemovalAllowed THEN Reject(t, r, cap)
       ELSE Begin(t, r, cap)

update_expense(t, r, cap) ==
    /\ r.op = "update_expense"
    /\ IF r.field \notin UpdateAllowed THEN Reject(t, r, cap)
       ELSE Begin(t, r, cap)

\* The statement of each handler on the connection's view.
StatementView(r) ==
    CASE r.op = "add_expense" ->
            InsertRow(view, r.date, r.amount, r.category, r.subcategory, r.note)
      [] r.op = "removal" -> DeleteRows(view, r.field, r.value)
      [] r.op = "update_expense" -> UpdateRows(view, r.id, r.field, r.value)
      [] OTHER -> view

\* cur.lastrowid, cur.rowcount and the rows a SELECT yields.
StatementCursors(r) ==
    CASE r.op = "add_expense" ->
            {[NoCur EXCEPT !.lastrowid = NextId(view), !.prior = everIds]}
      [] r.op = "removal" ->
            {[NoCur EXCEPT !.rowcount =
                Cardinality(DeleteMatching(r.field, view.rows, r.value))]}
      [] r.op = "update_expense" ->
            {[NoCur EXCEPT !.rowcount =
                Cardinality(UpdateMatching(view.rows, r.id))]}
      [] r.op = "list_expenses" ->
            {[NoCur EXCEPT !.rows =
                SelectRows(view, r.start_date, r.end_date, r.limit)]}
      [] OTHER ->
            {[NoCur EXCEPT !.groups = g] :
                g \in Orderings(Groups(view, r.start_date, r.end_date,
                                       r.catNone, r.category))}

\* await db.execute(...): an error without the table, an error for a write
\* to a database that cannot be written, the statement otherwise.
execute(t) ==
    /\ pc[t] = "execute"
    /\ IF ~view.exists
       THEN Return(t, Error(t, E_no_table)) /\ UNCHANGED dbVars
       ELSE IF req[t].op \in Mutating /\ readOnly
       THEN Return(t, Error(t, E_readonly)) /\ UNCHANGED dbVars
       ELSE /\ view' = StatementView(req[t])
            /\ everIds' = everIds \cup RowIds(view'.rows)
            /\ \E c \in StatementCursors(req[t]) : cur' = [cur EXCEPT ![t] = c]
            /\ Goto(t, IF req[t].op \in Mutating THEN "commit" ELSE "fetchall")
            /\ UNCHANGED <<committed, db>>
    /\ UNCHANGED <<envVars, connVars>>

\* rows = await cur.fetchall(); return [dict(zip(cols, r)) for r in rows]
fetchall(t) ==
    /\ pc[t] = "fetchall"
    /\ Return(t, [Result(t, "list") EXCEPT !.rows = cur[t].rows,
                                           !.groups = cur[t].groups,
                                           !.after = held])
    /\ UNCHANGED <<envVars, dbVars, connVars>>

\* The success envelope of a mutating handler.
Success(t) ==
    [Result(t, "success") EXCEPT
        !.id = cur[t].lastrowid, !.count = cur[t].rowcount,
        !.prior = cur[t].prior]

\* await db.commit(); return {"status": "success", ...}
commit(t) ==
    /\ pc[t] = "commit"
    /\ committed' = view
    /\ Return(t, Success(t))
    /\ UNCHANGED <<envVars, view, everIds, connVars>>

\* db.commit() raises: "database is locked" leaves the transaction open,
\* a failed write rolls it back.  Nothing in the handler undoes the statement.
commit_fail(t) ==
    /\ pc[t] = "commit"
    /\ \E msg \in {E_locked, E_io} :
          /\ view' = IF msg = E_io THEN committed ELSE view
          /\ Return(t, Error(t, msg))
    /\ UNCHANGED <<envVars, committed, everIds, connVars>>

(***************************************************************************)
(* Initial states: the process has started and no handler has run.  The    *)
(* database is ":memory:" (empty), or a file: new, or left by earlier runs *)
(* with the rows and the AUTOINCREMENT counter they left.                  *)
(***************************************************************************)
\* The table exists and is empty; it holds record 1 after record 2 was
\* deleted; it holds two records.
StoredNone == [exists |-> TRUE, rows |-> {}, seq |-> 0]

StoredOne ==
    [exists |-> TRUE, seq |-> 2,
     rows |-> {Row(1, T_10, NumV(1), T_a, T_empty, T_empty)}]

StoredTwo ==
    [exists |-> TRUE, seq |-> 2,
     rows |-> {Row(1, T_2, NumV(2), T_empty, T_empty, T_a),
               Row(2, T_10, NumV(1), T_a, T_a, T_empty)}]

StoredDbs == {StoredNone, StoredOne, StoredTwo}

Start(cloud, ro, stored, caller) ==
    /\ IS_CLOUD = cloud
    /\ readOnly = ro
    /\ committed = stored
    /\ view = stored
    /\ everIds = 1..stored.seq
    /\ _db_conn = None
    /\ _db_lock = None
    /\ waiters = <<>>
    /\ opened = 0
    /\ initDone = 0
    /\ pc = [t \in Tasks |-> "idle"]
    /\ req = [t \in Tasks |-> NoReq]
    /\ db = [t \in Tasks |-> None]
    /\ cur = [t \in Tasks |-> NoCur]
    /\ nio = [t \in Tasks |-> 0]
    /\ calls = 0
    /\ last = NoLast
    /\ held = NoHeld
    /\ client = caller

Init ==
    \/ Start(TRUE, FALSE, EmptyDb, FreeClient)
    \/ \E ro \in BOOLEAN, stored \in {EmptyDb} \cup StoredDbs :
          Start(FALSE, ro, stored, FreeClient)

(***************************************************************************)
(* The arguments the callers pass.                                         *)
(***************************************************************************)
AddInputs ==
    { AddReq(T_10, 1, T_a, T_empty, T_empty),
      AddReq(T_2, 2, T_empty, T_a, T_b),
      AddReq(T_2, 1, T_b, T_empty, T_a) }

Ranges == { <<T_1, T_3>>, <<T_10, T_10>>, <<T_2, T_3>>, <<T_3, T_1>> }

Limits == { -1, 0, 1, 2, DEFAULT_LIMIT }

ListInputs == { ListReq(x[1], x[2], l) : x \in Ranges, l \in Limits }

SummarizeInputs ==
    { SummarizeReq(x[1], x[2], TRUE, T_empty) : x \in Ranges }
    \cup { SummarizeReq(x[1], x[2], FALSE, c) :
             x \in { <<T_1, T_3>>, <<T_10, T_10>> }, c \in {T_empty, T_a} }

RemovalInputs ==
    { RemovalReq(f, v) :
        f \in {"id", "category", "date", "amount", "note"},
        v \in {T_1, T_2, T_a} }

UpdateInputs ==
    { UpdateReq(i, x[1], x[2]) :
        i \in {1, 3},
        x \in { <<"date", T_2>>, <<"category", T_empty>>, <<"category", T_a>>,
                <<"amount", T_2>>, <<"amount", T_a>>, <<"subcategory", T_b>>,
                <<"note", T_b>>, <<"id", T_2>>, <<"rowid", T_2>> } }

(***************************************************************************)
(* One caller at a time, every handler, a store without transient faults.  *)
(***************************************************************************)
Next ==
    \/ \E r \in AddInputs : add_expense(1, r, MaxCalls)
    \/ \E r \in ListInputs : list_expenses(1, r, MaxCalls)
    \/ \E r \in SummarizeInputs : summarize(1, r, MaxCalls)
    \/ \E r \in RemovalInputs : removal(1, r, MaxCalls)
    \/ \E r \in UpdateInputs : update_expense(1, r, MaxCalls)
    \/ get_db_connect(1)
    \/ get_db_pragma_fk(1)
    \/ get_db_pragma_wal(1)
    \/ get_db_create(1)
    \/ get_db_commit(1)
    \/ execute(1)
    \/ fetchall(1)
    \/ commit(1)

Spec == Init /\ [][Next]_vars

(***************************************************************************)
(* Concurrent callers, and a store whose connect and commit may fail.      *)
(***************************************************************************)
ConcAddInputs == { AddReq(T_2, 1, T_a, T_empty, T_empty) }

ConcListInputs == { ListReq(T_1, T_3, -1) }

ConcRemovalInputs == { RemovalReq("id", T_1) }

NextConc ==
    \E t \in Tasks :
        \/ \E r \in ConcAddInputs : add_expense(t, r, MaxConcCalls)
        \/ \E r \in ConcListInputs : list_expenses(t, r, MaxConcCalls)
        \/ \E r \in ConcRemovalInputs : removal(t, r, MaxConcCalls)
        \/ get_db_locked(t)
        \/ get_db_connect(t)
        \/ get_db_connect_fail(t)
        \/ get_db_pragma_fk(t)
        \/ get_db_pragma_wal(t)
        \/ get_db_create(t)
        \/ get_db_commit(t)
        \/ execute(t)
        \/ fetchall(t)
        \/ commit(t)
        \/ commit_fail(t)

InitConc ==
    \/ Start(TRUE, FALSE, EmptyDb, FreeClient)
    \/ \E ro \in BOOLEAN, stored \in {EmptyDb, StoredOne} :
          Start(FALSE, ro, stored, FreeClient)

SpecConc == InitConc /\ [][NextConc]_vars

(***************************************************************************)
(* The round trip: one caller on an empty table inserts up to MaxN         *)
(* records, removes each by the id add_expense returned, then lists.       *)
(***************************************************************************)
RoundTripRequests(c) ==
    (IF c.phase = "insert" /\ c.adds < MaxN THEN AddInputs ELSE {})
    \cup (IF c.phase \in {"insert", "delete"}
          THEN {RemovalReq("id", Str(v)) : v \in c.ids} ELSE {})
    \cup (IF c.phase \in {"insert", "delete"} /\ c.ids = {}
          THEN {ListReq(x[1], x[2], l) : x \in Ranges, l \in {-1, DEFAULT_LIMIT}}
          ELSE {})

InitRoundTrip ==
    \/ Start(TRUE, FALSE, EmptyDb, RoundTripClient)
    \/ \E stored \in {EmptyDb, StoredNone, [StoredNone EXCEPT !.seq = 2]} :
          Start(FALSE, FALSE, stored, RoundTripClient)

NextRoundTrip ==
    \/ \E r \in RoundTripRequests(client) : add_expense(1, r, 2 * MaxN + 1)
    \/ \E r \in RoundTripRequests(client) : removal(1, r, 2 * MaxN + 1)
    \/ \E r \in RoundTripRequests(client) : list_expenses(1, r, 2 * MaxN + 1)
    \/ get_db_connect(1)
    \/ get_db_pragma_fk(1)
    \/ get_db_pragma_wal(1)
    \/ get_db_create(1)
    \/ get_db_commit(1)
    \/ execute(1)
    \/ fetchall(1)
    \/ commit(1)

SpecRoundTrip == InitRoundTrip /\ [][NextRoundTrip]_vars

(***************************************************************************)
(* Properties.                                                             *)
(***************************************************************************)
InitPcs == {"connect", "pragma_fk", "pragma_wal", "create", "init_commit"}

\* C1: get_db hands the connection to a caller only after the schema
\* statement and its commit have completed on it.
C1_HandleOnlyAfterSchema == \A t \in Tasks : db[t] # None => initDone >= 1

\* C2: the initialization runs to completion at most once, at most one
\* connection is ever opened and stored, every caller gets that connection,
\* and once an initialization has completed no caller runs it again.
C2_InitOnce ==
    /\ opened <= 1
    /\ initDone <= 1
    /\ _db_conn \in {None, 1}
    /\ \A t \in Tasks : db[t] # None => db[t] = _db_conn
    /\ \A t \in Tasks : initDone >= 1 => pc[t] \notin InitPcs

\* Two callers, one of which waited for the lock, hold the one connection
\* after the one initialization.
C2_Witness ==
    /\ initDone = 1
    /\ opened = 1
    /\ calls >= 2
    /\ \A t \in Tasks : db[t] = 1

\* The fields outside the allow-lists of removal and update_expense.
InvalidField(r) ==
    \/ r.op = "removal" /\ r.field \notin {"id", "category", "date", "amount"}
    \/ /\ r.op = "update_expense"
       /\ r.field \notin {"date", "category", "amount", "subcategory", "note"}

\* C3: a removal or update_expense with a field outside its allow-list
\* returns an error envelope in the step of the call, issues no statement
\* and no commit, opens no connection and leaves every record unchanged;
\* no such request is ever in progress.
C3_InvalidFieldRejected ==
    [][ /\ \A t \in Tasks : ~InvalidField(req'[t])
        /\ (InvalidField(last'.req) /\ (last' # last \/ calls' # calls))
             => /\ last'.status = "error"
                /\ last'.nio = 0
                /\ calls' = calls + 1
                /\ view' = view
                /\ committed' = committed
                /\ _db_conn' = _db_conn
                /\ opened' = opened
                /\ pc' = pc ]_vars

\* update_expense with field "id" was rejected on a store that holds records.
C3_Witness ==
    /\ last.status = "error"
    /\ last.req.op = "update_expense"
    /\ last.req.field = "id"
    /\ last.message = UpdateInvalidMessage
    /\ view.rows # {}

\* C4: list_expenses returns at most limit rows (no returned row stands
\* after the limit-th), each with start_date <= date <= end_date.
C4_ListCapped ==
    (last.status = "list" /\ last.req.op = "list_expenses")
        => \A i \in 1..Len(last.rows) :
              /\ i <= last.req.limit
              /\ InRange(last.rows[i], last.req.start_date, last.req.end_date)

\* A list_expenses that follows a successful add_expense, over a range that
\* contains the added date.
ListAfterAdd ==
    /\ last.status = "list"
    /\ last.req.op = "list_expenses"
    /\ last.after.id # 0
    /\ TextLE(last.req.start_date, last.after.req.date)
    /\ TextLE(last.after.req.date, last.req.end_date)

\* The list holds the added record: the inputs, under the returned id.
ListHoldsAdded ==
    \E i \in 1..Len(last.rows) :
        last.rows[i] =
            Row(last.after.id, last.after.req.date, NumV(last.after.req.amount),
                last.after.req.category, last.after.req.subcategory,
                last.after.req.note)

\* The records of the range that sort ahead of the added one.
AheadOfAdded ==
    {r \in view.rows :
        /\ InRange(r, last.req.start_date, last.req.end_date)
        /\ r.id # last.after.id
        /\ Before(r, [r EXCEPT !.id = last.after.id,
                               !.date = last.after.req.date])}

\* C5, as stated: a successful add_expense followed by list_expenses over a
\* range containing its date returns a record equal to the inputs under the
\* returned id, an id no earlier record had.
C5_AddThenList ==
    ListAfterAdd => ListHoldsAdded /\ last.after.id \notin last.after.prior

\* C5, amended: the same, when limit is negative or more than the number of
\* records of the range that sort ahead of the added one.
C5_AddThenListWithinLimit ==
    ListAfterAdd
        => /\ last.after.id \notin last.after.prior
           /\ (last.req.limit < 0 \/ Cardinality(AheadOfAdded) < last.req.limit)
                 => ListHoldsAdded

\* The added record is listed second, after an older record of a later date.
C5_Witness ==
    /\ ListAfterAdd
    /\ last.req.limit = 2
    /\ Cardinality(AheadOfAdded) = 1
    /\ ListHoldsAdded
    /\ last.after.id = 3

\* The categories of the records of the range.
CategoriesInRange ==
    {r.category : r \in {q \in view.rows :
        InRange(q, last.req.start_date, last.req.end_date)}}

GroupSet == {last.groups[i] : i \in 1..Len(last.groups)}

\* C6: summarize with a category other than None returns at most one group,
\* of that category; without a category it returns exactly one group per
\* category of the records of the range, with the count of those records.
C6_SummarizeGroups ==
    (last.status = "list" /\ last.req.op = "summarize")
        => IF ~last.req.catNone
           THEN /\ Len(last.groups) <= 1
                /\ \A g \in GroupSet : g.category = last.req.category
           ELSE /\ Len(last.groups) = Cardinality(CategoriesInRange)
                /\ {g.category : g \in GroupSet} = CategoriesInRange
                /\ \A g \in GroupSet :
                      g.count = Cardinality({r \in view.rows :
                          /\ InRange(r, last.req.start_date, last.req.end_date)
                          /\ r.category = g.category})

\* C7: a mutating handler that fails on a read-only store returns the
\* message "Database is read-only in this environment.".
C7_ReadOnlyMessage ==
    (last.status = "error" /\ last.req.op \in Mutating /\ last.cause = E_readonly)
        => last.message = ReadOnlyMessage

RowFields == {"id", "date", "amount", "category", "subcategory", "note"}

\* C8: the statement of update_expense with an allowed field keeps the
\* number of records and their ids, changes no record of another id and no
\* other field of the record of that id, and counts 1 when a record of that
\* id exists and 0 when none does; the handler then returns that count with
\* status "success" and changes nothing more.
C8_UpdateFrame ==
    [][ \A t \in Tasks :
          /\ (pc[t] = "execute" /\ pc'[t] = "commit"
                /\ req[t].op = "update_expense")
               => /\ Cardinality(view'.rows) = Cardinality(view.rows)
                  /\ RowIds(view'.rows) = RowIds(view.rows)
                  /\ \A old \in view.rows : \E new \in view'.rows :
                        /\ new.id = old.id
                        /\ old.id # req[t].id => new = old
                        /\ \A f \in RowFields \ {req[t].field} : new[f] = old[f]
                  /\ cur'[t].rowcount =
                        IF req[t].id \in RowIds(view.rows) THEN 1 ELSE 0
          /\ (pc[t] = "commit" /\ pc'[t] = "idle"
                /\ req[t].op = "update_expense")
               => /\ last'.status = "success"
                  /\ last'.count = cur[t].rowcount
                  /\ view' = view ]_vars

\* An update of one of two stored records returned count 1.
C8_Witness ==
    /\ last.status = "success"
    /\ last.req.op = "update_expense"
    /\ last.count = 1
    /\ Cardinality(view.rows) = 2
    /\ \E r \in view.rows : r.id = 1 /\ r.note = T_b

\* C9: on a table that was empty, after inserting records and removing each
\* by its returned id, every removal has returned status "success" with
\* deleted = 1, the table is empty and the list that follows is empty.
C9_RoundTrip ==
    /\ \A x \in client.results : x.status = "success" /\ x.deleted = 1
    /\ client.phase = "done"
         => /\ view.rows = {}
            /\ committed.rows = {}
            /\ last.status = "list"
            /\ last.rows = <<>>

\* Two records were inserted, both were removed, and the list returned.
C9_Witness ==
    /\ client.phase = "done"
    /\ client.adds = 2
    /\ client.ids = {}
    /\ client.results # {}
    /\ calls = 5

\* C10: an add_expense that returned an error envelope after its INSERT
\* was executed has left no record: none that the connection shows to later
\* list_expenses or summarize calls, and none committed.
C10_FailedAddLeavesNothing ==
    (last.status = "error" /\ last.req.op = "add_expense" /\ last.id # 0)
        => /\ last.id \notin RowIds(view.rows)
           /\ last.id \notin RowIds(committed.rows)

=============================================================================
